---------------------------- MODULE Spec2Model ----------------------------
(***************************************************************************)
(* A model of the quadtree of src/src/quadtree.rs and of the calls that    *)
(* src/src/main.rs makes on it.                                            *)
(*                                                                         *)
(* Every coordinate of the program is an f32.  The model keeps the f32     *)
(* arithmetic: a value is a pair (m, e) standing for m * 2^e with a        *)
(* 24-bit significand, and a sum or a difference is rounded to the         *)
(* nearest value, ties to even, as the hardware does.  Exponents stay far  *)
(* from the f32 limits in every state the model reaches (no subnormal, no  *)
(* infinity, no NaN), so those cases are not modelled.                     *)
(***************************************************************************)
EXTENDS Integers, Sequences, FiniteSets

VARIABLES qt, ok_objs, last

vars == <<qt, ok_objs, last>>

(***************************************************************************)
(* Bounds of the model.                                                    *)
(***************************************************************************)
\* Frames the call stack holds: an insert that needs a frame at this depth
\* overflows the stack and the process aborts.
MaxDepth == 8
\* Successful inserts explored.
MaxInserts == 2

(***************************************************************************)
(* f32                                                                     *)
(***************************************************************************)
\* Bits of an f32 significand (the hidden bit included).
MantBits == 24

Top == 2^MantBits
Low == 2^(MantBits - 1)

Abs(n) == IF n < 0 THEN -n ELSE n
Sgn(n) == IF n < 0 THEN -1 ELSE 1

FZero == [m |-> 0, e |-> 0]

\* The largest j in 0..MantBits with a * 2^j < Top, for 0 < a < Low.
RECURSIVE ShiftUp(_, _)
ShiftUp(a, j) == IF a * 2 >= Top THEN j ELSE ShiftUp(a * 2, j + 1)

\* The integer s (|s| < 2^28), standing for s * 2^e0, rounded to the nearest
\* f32, ties to even.  An odd s may stand for a value strictly between s - 1
\* and s + 1 (a sticky bit); at least two bits are then dropped.
RoundNorm(s, e0) ==
    LET a == Abs(s) IN
    IF a = 0 THEN FZero
    ELSE IF a < Low
    THEN LET j == ShiftUp(a, 0) IN [m |-> s * 2^j, e |-> e0 - j]
    ELSE LET k == IF a < Top THEN 0
                  ELSE IF a < 2 * Top THEN 1
                  ELSE IF a < 4 * Top THEN 2
                  ELSE IF a < 8 * Top THEN 3
                  ELSE 4
             p == 2^k
             q == a \div p
             r == a % p
             up == 2 * r > p \/ (2 * r = p /\ q % 2 = 1)
             q1 == IF up THEN q + 1 ELSE q
         IN  IF q1 = Top THEN [m |-> Sgn(s) * Low, e |-> e0 + k + 1]
             ELSE [m |-> Sgn(s) * q1, e |-> e0 + k]

\* The f32 nearest to n * 2^e, for an integer |n| < 2^28: an f32 literal.
F32(n, e) == RoundNorm(n, e)

\* a + b in f32.  The operand of larger exponent gets three more bits; the
\* other is aligned to it, the bits shifted out kept as a sticky bit.
FAdd(a, b) ==
    IF a.m = 0 THEN b
    ELSE IF b.m = 0 THEN a
    ELSE LET hi == IF a.e >= b.e THEN a ELSE b
             lo == IF a.e >= b.e THEN b ELSE a
             d == hi.e - lo.e
             aligned ==
                 IF d <= 3 THEN lo.m * 2^(3 - d)
                 ELSE LET p == 2^((IF d > 30 THEN 30 ELSE d) - 3)
                          q == Abs(lo.m) \div p
                          r == Abs(lo.m) % p
                      IN  Sgn(lo.m) * (IF r # 0 /\ q % 2 = 0 THEN q + 1 ELSE q)
         IN  RoundNorm(hi.m * 8 + aligned, hi.e - 3)

FNeg(a) == [m |-> -a.m, e |-> a.e]

\* a - b in f32.
FSub(a, b) == FAdd(a, FNeg(b))

\* a / 2.0 in f32 (exact: the exponent drops by one).
FHalf(a) == IF a.m = 0 THEN a ELSE [m |-> a.m, e |-> a.e - 1]

\* a < b on f32 values.
FLt(a, b) ==
    IF a.m < 0 /\ b.m >= 0 THEN TRUE
    ELSE IF a.m >= 0 /\ b.m <= 0 THEN FALSE
    ELSE IF a.m = 0 THEN TRUE
    ELSE IF a.m > 0 THEN a.e < b.e \/ (a.e = b.e /\ a.m < b.m)
    ELSE a.e > b.e \/ (a.e = b.e /\ a.m < b.m)

FGt(a, b) == FLt(b, a)
FLe(a, b) == ~FLt(b, a)
FGe(a, b) == ~FLt(a, b)

(***************************************************************************)
(* Rectangle, the Sized object of src/src/main.rs                          *)
(***************************************************************************)
Rectangle(position_x, position_y, width, height) ==
    [position_x |-> position_x, position_y |-> position_y,
     width |-> width, height |-> height]

north_edge(r) == r.position_y
east_edge(r) == FAdd(r.position_x, r.width)
south_edge(r) == FSub(r.position_y, r.height)
west_edge(r) == r.position_x

(***************************************************************************)
(* Quadtree                                                                *)
(***************************************************************************)
None == <<>>
Some(x) == <<x>>

new(position_x, position_y, width, height) ==
    [position_x |-> position_x, position_y |-> position_y,
     width |-> width, height |-> height,
     divided |-> FALSE,
     northeast_quad |-> None, northwest_quad |-> None,
     southeast_quad |-> None, southwest_quad |-> None,
     contents |-> <<>>]

\* A subdivide that creates three quadrants and leaves out the southwest.
subdivide_three(self) ==
    IF ~self.divided
    THEN [self EXCEPT
            !.northeast_quad = Some(new(FAdd(self.position_x, FHalf(self.width)),
                                        self.position_y,
                                        FHalf(self.width), FHalf(self.height))),
            !.northwest_quad = Some(new(self.position_x,
                                        self.position_y,
                                        FHalf(self.width), FHalf(self.height))),
            !.southeast_quad = Some(new(FAdd(self.position_x, FHalf(self.width)),
                                        FSub(self.position_y, FHalf(self.height)),
                                        FHalf(self.width), FHalf(self.height))),
            !.divided = TRUE]
    ELSE self

subdivide(self) ==
    IF ~self.divided
    THEN [self EXCEPT
            !.northeast_quad = Some(new(FAdd(self.position_x, FHalf(self.width)),
                                        self.position_y,
                                        FHalf(self.width), FHalf(self.height))),
            !.northwest_quad = Some(new(self.position_x,
                                        self.position_y,
                                        FHalf(self.width), FHalf(self.height))),
            !.southeast_quad = Some(new(FAdd(self.position_x, FHalf(self.width)),
                                        FSub(self.position_y, FHalf(self.height)),
                                        FHalf(self.width), FHalf(self.height))),
            !.southwest_quad = Some(new(self.position_x,
                                        FSub(self.position_y, FHalf(self.height)),
                                        FHalf(self.width), FHalf(self.height))),
            !.divided = TRUE]
    ELSE self

\* A containment test that leaves out the east edge.
fits_without_east(self, sized_object) ==
    /\ FLe(north_edge(sized_object), self.position_y)
    /\ FGe(south_edge(sized_object), FSub(self.position_y, self.height))
    /\ FGe(west_edge(sized_object), self.position_x)

\* A containment test that leaves out the west edge.
fits_without_west(self, sized_object) ==
    /\ FLe(north_edge(sized_object), self.position_y)
    /\ FLe(east_edge(sized_object), FAdd(self.position_x, self.width))
    /\ FGe(south_edge(sized_object), FSub(self.position_y, self.height))

\* A containment test that refuses an object touching an edge.
fits_strictly(self, sized_object) ==
    /\ FLt(north_edge(sized_object), self.position_y)
    /\ FLt(east_edge(sized_object), FAdd(self.position_x, self.width))
    /\ FGt(south_edge(sized_object), FSub(self.position_y, self.height))
    /\ FGt(west_edge(sized_object), self.position_x)

\* The containment test of insert.
fits(self, sized_object) ==
    /\ FLe(north_edge(sized_object), self.position_y)
    /\ FLe(east_edge(sized_object), FAdd(self.position_x, self.width))
    /\ FGe(south_edge(sized_object), FSub(self.position_y, self.height))
    /\ FGe(west_edge(sized_object), self.position_x)

\* The four quadrants tried from the southwest to the northeast.
QuadOrder_reversed == <<"southwest_quad", "southeast_quad", "northwest_quad", "northeast_quad">>

\* The order in which insert and get_rect visit the four quadrants.
QuadOrder == <<"northeast_quad", "northwest_quad", "southeast_quad", "southwest_quad">>

\* self.contents.push(sized_object)
push(self, sized_object) == [self EXCEPT !.contents = Append(@, sized_object)]

RECURSIVE insert(_, _, _)

\* An insert that hands the object to a newly created quadrant in place of
\* the one the node has.
into_fresh(self, q, sized_object, depth) ==
    IF self[q] = None
    THEN [res |-> "Err", self |-> self]
    ELSE LET c == self[q][1]
             r == insert(new(c.position_x, c.position_y, c.width, c.height),
                         sized_object, depth + 1)
         IN  [res |-> r.res, self |-> [self EXCEPT ![q] = Some(r.self)]]

\* if let Some(rc_ref) = &self.<q> { rc_ref.borrow_mut().insert(..) }: the
\* child's result, and self with the child as its insert leaves it.  An
\* absent child is passed over like one that does not take the object.
into(self, q, sized_object, depth) ==
    IF self[q] = None
    THEN [res |-> "Err", self |-> self]
    ELSE LET r == insert(self[q][1], sized_object, depth + 1)
         IN  [res |-> r.res, self |-> [self EXCEPT ![q] = Some(r.self)]]

\* insert, called with `depth` frames of insert already on the stack.  The
\* result is Ok, Err (the object does not fit) or Overflow (the stack is
\* exhausted: the process aborts, `self` is the tree as the abort leaves it).
insert(self, sized_object, depth) ==
    IF depth >= MaxDepth
    THEN [res |-> "Overflow", self |-> self]
    ELSE IF ~fits(self, sized_object)
    THEN [res |-> "Err", self |-> self]
    ELSE LET s0 == IF ~self.divided THEN subdivide(self) ELSE self
             r1 == into(s0, QuadOrder[1], sized_object, depth)
         IN  IF r1.res # "Err" THEN r1 ELSE
             LET r2 == into(r1.self, QuadOrder[2], sized_object, depth) IN
             IF r2.res # "Err" THEN r2 ELSE
             LET r3 == into(r2.self, QuadOrder[3], sized_object, depth) IN
             IF r3.res # "Err" THEN r3 ELSE
             LET r4 == into(r3.self, QuadOrder[4], sized_object, depth) IN
             IF r4.res # "Err" THEN r4 ELSE
             [res |-> "Ok", self |-> push(r4.self, sized_object)]

\* An overlap test that takes a probe touching an edge for a disjoint one.
overlaps_strictly(self, rect) ==
    ~(\/ FLe(north_edge(rect), FSub(self.position_y, self.height))
      \/ FLe(east_edge(rect), self.position_x)
      \/ FGe(south_edge(rect), self.position_y)
      \/ FGe(west_edge(rect), FAdd(self.position_x, self.width)))

\* An overlap test that leaves out the probe's east edge.
overlaps_without_east(self, rect) ==
    ~(\/ FLt(north_edge(rect), FSub(self.position_y, self.height))
      \/ FGt(south_edge(rect), self.position_y)
      \/ FGt(west_edge(rect), FAdd(self.position_x, self.width)))

\* The overlap test of get_rect.
overlaps(self, rect) ==
    ~(\/ FLt(north_edge(rect), FSub(self.position_y, self.height))
      \/ FLt(east_edge(rect), self.position_x)
      \/ FGt(south_edge(rect), self.position_y)
      \/ FGt(west_edge(rect), FAdd(self.position_x, self.width)))

\* A loop that assigns the contents to the vector instead of pushing them.
extend_overwrite(vec, contents) == contents

\* for rc in self.contents.iter() { vec.push(Rc::clone(&rc)) }
extend(vec, contents) == vec \o contents

RECURSIVE get_rect(_, _, _)

\* A get_rect that looks into the two northern quadrants only.
visit_northern(self, q, rect, vec) ==
    IF self[q] = None \/ q \in {"southeast_quad", "southwest_quad"}
    THEN vec
    ELSE get_rect(self[q][1], rect, vec).vec

\* if let Some(rc_ref) = &self.<q> { let _ = rc_ref.borrow().get_rect(..) }:
\* the vector after it.  The child's result is dropped.
visit(self, q, rect, vec) ==
    IF self[q] = None THEN vec ELSE get_rect(self[q][1], rect, vec).vec

\* The statements of get_rect run one after the other: `value`, once the
\* vector `done` of the statement before it has been computed.
AndThen(done, value) == IF Len(done) >= 0 THEN value ELSE done

get_rect(self, rect, vec) ==
    IF overlaps(self, rect)
    THEN LET v1 == visit(self, QuadOrder[1], rect, vec)
             v2 == AndThen(v1, visit(self, QuadOrder[2], rect, v1))
             v3 == AndThen(v2, visit(self, QuadOrder[3], rect, v2))
             v4 == AndThen(v3, visit(self, QuadOrder[4], rect, v3))
         IN  [res |-> "Ok",
              vec |-> extend(IF self.divided THEN v4 ELSE vec, self.contents)]
    ELSE [res |-> "Err", vec |-> vec]

(***************************************************************************)
(* The calls made on the tree                                              *)
(***************************************************************************)
\* QT_SIZE of src/src/main.rs.
QT_SIZE == 400

\* Quadtree::new(QT_SIZE * -0.5, QT_SIZE * 0.5, QT_SIZE, QT_SIZE): the
\* products are exact.
DemoRoot == new(F32(-(QT_SIZE \div 2), 0), F32(QT_SIZE \div 2, 0),
                F32(QT_SIZE, 0), F32(QT_SIZE, 0))

\* Rectangle::new(x, y, w, h) on whole numbers.
Rect(x, y, w, h) == Rectangle(F32(x, 0), F32(y, 0), F32(w, 0), F32(h, 0))

DemoA == Rect(1, 1, 2, 2)
DemoB == Rect(190, 190, 2, 2)
\* Rectangle::new(QT_SIZE * -0.5 + 1.0, QT_SIZE * 0.5 - 1.0, QT_SIZE * 0.9,
\* QT_SIZE * 0.9): 400.0 * 0.9 is 360.0 in f32.
DemoView == Rect(-(QT_SIZE \div 2) + 1, QT_SIZE \div 2 - 1,
                 (QT_SIZE * 9) \div 10, (QT_SIZE * 9) \div 10)

\* The objects a caller inserts into the demo root: the two of main.rs, a
\* point on the centre, a point on a corner, an object as large as the
\* root, a flat object, a small object clear of the split lines, and one
\* object beyond each side of the root.
DemoObjects ==
    {DemoA, DemoB, Rect(0, 0, 0, 0), Rect(200, 200, 0, 0), Rect(-200, 200, 400, 400),
     Rect(100, 50, 50, 0), Rect(10, 12, 1, 1),
     Rect(199, 1, 2, 2), Rect(1, 201, 2, 2), Rect(-201, 0, 2, 2), Rect(0, -199, 2, 2)}

\* The views a caller queries the demo root with: the one of main.rs, the
\* root's own bounds, a view around B, a view far from A and B, a view
\* touching the root's east edge, and one view beyond each side.
DemoViews ==
    {DemoView, Rect(-200, 200, 400, 400), Rect(189, 191, 4, 4), Rect(-100, -100, 10, 10),
     Rect(200, 0, 5, 5),
     Rect(201, 0, 5, 5), Rect(-210, 0, 5, 5), Rect(0, 210, 5, 5), Rect(0, -201, 5, 5)}

\* A root far from the origin: 3.0 wide and high, anchored at x = 2^20,
\* y = 2^20 + 3.  An f32 between 2^20 and 2^21 is a multiple of 1/8.
FarOrigin == 2^23
FarSize == 3 * 8

\* Rectangle::new on eighths, x and y counted from the far root's south-west
\* corner.
FarRect(x, y, w, h) ==
    Rectangle(F32(FarOrigin + x, -3), F32(FarOrigin + y, -3), F32(w, -3), F32(h, -3))

FarRoot == new(F32(FarOrigin, -3), F32(FarOrigin + FarSize, -3),
               F32(FarSize, -3), F32(FarSize, -3))

\* An object 1/32 wide at an anchor where an f32 is a multiple of 1/8: its
\* east edge x + 1/32 rounds to x, its west edge.
FarSliver == Rectangle(F32(FarOrigin + 1, -3), F32(FarOrigin + FarSize, -3),
                       F32(1, -5), FZero)

FarObjects ==
    {FarSliver,
     FarRect(0, 23, 0, 0), FarRect(1, 24, 0, 0), FarRect(0, 24, 0, 2),
     FarRect(0, 22, 2, 1), FarRect(0, 24, 24, 24), FarRect(12, 24, 4, 4),
     FarRect(20, 8, 8, 0), FarRect(0, 25, 0, 0), FarRect(-1, 8, 1, 1), FarRect(0, 1, 1, 2)}

FarViews ==
    {FarRect(0, 24, 24, 24), FarRect(0, 20, 2, 2), FarRect(0, 23, 0, 0),
     FarRect(24, 8, 1, 1), FarRect(25, 8, 1, 1), FarRect(0, 30, 1, 1),
     FarRect(-3, 8, 2, 1), FarRect(0, -1, 1, 1)}

Roots == {DemoRoot, FarRoot}

IsDemo(root) == root.position_x = DemoRoot.position_x

Objects(root) == IF IsDemo(root) THEN DemoObjects ELSE FarObjects

Views(root) == IF IsDemo(root) THEN DemoViews ELSE FarViews

\* The vector a caller passes to get_rect: a new one (vec![]) or one that
\* already holds an object.
Held == Rect(7, 7, 7, 7)
Vectors == {<<>>, <<Held>>}

\* The last call: its operation, argument and result, and for a get_rect the
\* vector before (vec_in) and after (vec) the call.
Call(op, arg, res, vec_in, vec) ==
    [op |-> op, arg |-> arg, res |-> res, vec_in |-> vec_in, vec |-> vec]

Init ==
    /\ qt \in Roots
    /\ ok_objs = <<>>
    /\ last = Call("new", Rectangle(qt.position_x, qt.position_y, qt.width, qt.height),
                   "Ok", <<>>, <<>>)

\* qt.insert(Rc::new(rect)).  A stack overflow aborts the process: no call
\* follows it.
Insert ==
    /\ last.res # "Overflow"
    /\ Len(ok_objs) < MaxInserts
    /\ \E sized_object \in Objects(qt) :
          LET r == insert(qt, sized_object, 0) IN
          /\ qt' = r.self
          /\ ok_objs' = IF r.res = "Ok" THEN Append(ok_objs, sized_object) ELSE ok_objs
          /\ last' = Call("insert", sized_object, r.res, <<>>, <<>>)

\* qt.get_rect(Rc::clone(&rect), &mut vec)
GetRect ==
    /\ last.res # "Overflow"
    /\ \E rect \in Views(qt), vec \in Vectors :
          LET r == get_rect(qt, rect, vec) IN
          /\ last' = Call("get_rect", rect, r.res, vec, r.vec)
          /\ UNCHANGED <<qt, ok_objs>>

Next == Insert \/ GetRect

Spec == Init /\ [][Next]_vars

(***************************************************************************)
(* Vocabulary of the properties                                            *)
(***************************************************************************)
\* The four quadrants in the order northeast, northwest, southeast, southwest.
Quads == <<"northeast_quad", "northwest_quad", "southeast_quad", "southwest_quad">>

\* A node of the tree is named by the path of quadrants (indices into Quads)
\* that leads to it from the root.
RECURSIVE Paths(_)
Paths(t) ==
    {<<>>} \cup UNION {{<<i>> \o p : p \in Paths(t[Quads[i]][1])} :
                        i \in {j \in 1..4 : t[Quads[j]] # None}}

RECURSIVE NodeAt(_, _)
NodeAt(t, p) == IF p = <<>> THEN t ELSE NodeAt(t[Quads[Head(p)]][1], Tail(p))

\* The paths of the ancestors of the node at p, and of the node itself.
Upto(p) == {SubSeq(p, 1, k) : k \in 0..Len(p)}

\* The four edges of an object and of a node's bounds.
ObjEdges(o) ==
    [north |-> north_edge(o), east |-> east_edge(o),
     south |-> south_edge(o), west |-> west_edge(o)]

NodeEdges(n) ==
    [north |-> n.position_y, east |-> FAdd(n.position_x, n.width),
     south |-> FSub(n.position_y, n.height), west |-> n.position_x]

\* a lies fully within b (edges may coincide).
Within(a, b) ==
    /\ FLe(a.north, b.north)
    /\ FLe(a.east, b.east)
    /\ FGe(a.south, b.south)
    /\ FGe(a.west, b.west)

\* a is strictly disjoint from b on some side (touching is not disjoint).
Disjoint(a, b) ==
    \/ FLt(a.north, b.south)
    \/ FLt(a.east, b.west)
    \/ FGt(a.south, b.north)
    \/ FGt(a.west, b.east)

\* The object has an edge outside the node's bounds.
Outside(o, n) ==
    \/ FGt(north_edge(o), n.position_y)
    \/ FGt(east_edge(o), FAdd(n.position_x, n.width))
    \/ FLt(south_edge(o), FSub(n.position_y, n.height))
    \/ FLt(west_edge(o), n.position_x)

\* The probe that equals the root's own bounds.
RootView(t) == Rectangle(t.position_x, t.position_y, t.width, t.height)

Range(s) == {s[i] : i \in 1..Len(s)}

Count(x, s) == Cardinality({i \in 1..Len(s) : s[i] = x})

\* s and t hold the same elements, each as many times.
SameBag(s, t) ==
    /\ Len(s) = Len(t)
    /\ \A x \in Range(s) \cup Range(t) : Count(x, s) = Count(x, t)

\* What the last get_rect appended to the vector it was given.
Appended == SubSeq(last.vec, Len(last.vec_in) + 1, Len(last.vec))

\* The places where the tree stores an object: <<p, i>> for the i-th entry
\* of the contents of the node at path p.
Stored(t) == UNION {{<<p, i>> : i \in 1..Len(NodeAt(t, p).contents)} : p \in Paths(t)}

\* The object stored at a place.
ObjAt(t, s) == NodeAt(t, s[1]).contents[s[2]]

\* The tree has a node at path p.
RECURSIVE HasNode(_, _)
HasNode(t, p) ==
    \/ p = <<>>
    \/ /\ t[Quads[Head(p)]] # None
       /\ HasNode(t[Quads[Head(p)]][1], Tail(p))

\* The contents of the node at path p, empty if the tree has no such node.
ContentsAt(t, p) == IF HasNode(t, p) THEN NodeAt(t, p).contents ELSE <<>>

(***************************************************************************)
(* C1.  A get_rect on the root with the root's own bounds as the probe and *)
(* an empty vector returns Ok, and the vector then holds exactly the       *)
(* objects whose insert returned Ok, each once per successful insert.      *)
(***************************************************************************)
C1_FullBoundsQuery ==
    (last.op = "get_rect" /\ last.arg = RootView(qt) /\ last.vec_in = <<>>)
        => (last.res = "Ok" /\ SameBag(last.vec, ok_objs))

\* Two inserts succeeded, one object rests at the root and one below it,
\* and the query was made with the root's bounds.
C1_Witness ==
    /\ last.op = "get_rect" /\ last.arg = RootView(qt) /\ last.vec_in = <<>>
    /\ Len(ok_objs) = 2
    /\ qt.contents # <<>>
    /\ \E p \in Paths(qt) : p # <<>> /\ NodeAt(qt, p).contents # <<>>

(***************************************************************************)
(* C2.  An insert on the root of an object with an edge outside the root's *)
(* bounds returns the out-of-bounds error and leaves the whole tree as it  *)
(* was: no node subdivided, no node created, no contents changed, the      *)
(* count of stored objects the same.                                       *)
(***************************************************************************)
C2_OutOfBoundsInsert ==
    [][(last'.op = "insert" /\ Outside(last'.arg, qt))
          => (last'.res = "Err" /\ qt' = qt /\ ok_objs' = ok_objs)]_vars

\* An out-of-bounds insert was refused by a tree that is divided and holds
\* an object below its root.
C2_Witness ==
    /\ last.op = "insert" /\ Outside(last.arg, qt) /\ last.res = "Err"
    /\ qt.divided
    /\ \E p \in Paths(qt) : p # <<>> /\ NodeAt(qt, p).contents # <<>>

(***************************************************************************)
(* C3.  A get_rect on the root returns the no-overlap error if and only if *)
(* the probe is strictly disjoint from the root's bounds on some side (a   *)
(* probe touching an edge overlaps); on that error the vector is exactly   *)
(* as it was before the call; otherwise the call returns Ok, whatever the  *)
(* children report.                                                        *)
(***************************************************************************)
C3_NoOverlap ==
    last.op = "get_rect" =>
        /\ last.res \in {"Ok", "Err"}
        /\ last.res = "Err" <=> Disjoint(ObjEdges(last.arg), NodeEdges(qt))
        /\ last.res = "Err" => last.vec = last.vec_in

\* A probe beyond the root was refused by a divided tree that holds an
\* object, with a vector that already held one.
C3_Witness ==
    /\ last.op = "get_rect" /\ last.res = "Err"
    /\ Disjoint(ObjEdges(last.arg), NodeEdges(qt))
    /\ last.vec_in # <<>>
    /\ qt.divided /\ Len(ok_objs) > 0

(***************************************************************************)
(* C5.  A successful insert appends the object to the contents of exactly  *)
(* one node: the node reached from the root by descending, as long as one  *)
(* exists, into the first quadrant in the order northeast, northwest,      *)
(* southeast, southwest whose bounds fully contain the object.  So in      *)
(* every state a stored object lies within the bounds of its node and of   *)
(* every ancestor of it, and within the bounds of none of the node's four  *)
(* quadrants.                                                              *)
(***************************************************************************)
\* The quadrants of node n (indices into Quads) whose bounds contain o.
Containing(n, o) ==
    {i \in 1..4 : n[Quads[i]] # None
                  /\ Within(ObjEdges(o), NodeEdges(n[Quads[i]][1]))}

Least(S) == CHOOSE i \in S : \A j \in S : i <= j

\* The path from node n (at path p) to the node where the descent stops.
RECURSIVE Target(_, _, _)
Target(n, o, p) ==
    IF Containing(n, o) = {} THEN p
    ELSE LET i == Least(Containing(n, o))
         IN  Target(n[Quads[i]][1], o, Append(p, i))

C5_Resting ==
    \A s \in Stored(qt) :
        /\ \A a \in Upto(s[1]) : Within(ObjEdges(ObjAt(qt, s)), NodeEdges(NodeAt(qt, a)))
        /\ NodeAt(qt, s[1]).divided
        /\ Containing(NodeAt(qt, s[1]), ObjAt(qt, s)) = {}

C5_Step ==
    (last'.op = "insert" /\ last'.res = "Ok") =>
        \E t \in {Target(qt', last'.arg, <<>>)} :
            \A p \in Paths(qt') :
                NodeAt(qt', p).contents =
                    IF p = t THEN Append(ContentsAt(qt, p), last'.arg)
                    ELSE ContentsAt(qt, p)

C5_Placement == []C5_Resting /\ [][C5_Step]_vars

\* An object that two quadrants of a node contain rests below that node,
\* in the first of the two.
C5_Witness ==
    /\ last.op = "insert" /\ last.res = "Ok"
    /\ \E s \in Stored(qt) :
          /\ ObjAt(qt, s) = last.arg
          /\ Len(s[1]) >= 2
          /\ \E a \in Upto(s[1]) :
                Cardinality(Containing(NodeAt(qt, a), last.arg)) >= 2

(***************************************************************************)
(* C10.  The query never misses a true hit: every stored object whose own  *)
(* rectangle is not strictly disjoint from the probe (it overlaps or       *)
(* touches it) is in what get_rect on the root appends to the vector, as   *)
(* many times as it is stored.                                             *)
(***************************************************************************)
C10_NoMissedHit ==
    last.op = "get_rect" =>
        \A s \in Stored(qt) :
            ~Disjoint(ObjEdges(ObjAt(qt, s)), ObjEdges(last.arg)) =>
                Count(ObjAt(qt, s), Appended)
                    >= Cardinality({u \in Stored(qt) : ObjAt(qt, u) = ObjAt(qt, s)})

\* A probe other than the root's bounds hit an object that rests at least
\* two levels below the root, in a southern quadrant, while another object
\* rests elsewhere.
C10_Witness ==
    /\ last.op = "get_rect" /\ last.res = "Ok" /\ last.arg # RootView(qt)
    /\ \E s \in Stored(qt) :
          /\ Len(s[1]) >= 2
          /\ \E k \in 1..Len(s[1]) : s[1][k] \in {3, 4}
          /\ ~Disjoint(ObjEdges(ObjAt(qt, s)), ObjEdges(last.arg))
          /\ \E u \in Stored(qt) : u[1] # s[1]

(***************************************************************************)
(* C6.  In every reachable state each node has either no children and      *)
(* divided = FALSE, or all four children and divided = TRUE; the children  *)
(* of a divided node have half the parent's width and half its height and  *)
(* are anchored at (x+w/2, y), (x, y), (x+w/2, y-h/2) and (x, y-h/2), the  *)
(* sums and differences being those of f32; the inner edges of the         *)
(* children coincide, and their outer north and west edges are the         *)
(* parent's.  Their outer east and south edges are (x+w/2)+w/2 and         *)
(* (y-h/2)-h/2 rounded twice, which need not be the parent's x+w and y-h   *)
(* rounded once: the children may leave a strip of the parent uncovered or *)
(* reach beyond it.                                                        *)
(***************************************************************************)
Child(n, i) == n[Quads[i]][1]

C6_Shape(n) ==
    LET present == {i \in 1..4 : n[Quads[i]] # None}
    IN  \/ ~n.divided /\ present = {}
        \/ n.divided /\ present = 1..4

C6_Halves(n) ==
    \A i \in 1..4 : /\ Child(n, i).width = FHalf(n.width)
                    /\ Child(n, i).height = FHalf(n.height)

C6_Anchors(n) ==
    LET mid_x == FAdd(n.position_x, FHalf(n.width))
        mid_y == FSub(n.position_y, FHalf(n.height))
    IN  /\ Child(n, 1).position_x = mid_x        /\ Child(n, 1).position_y = n.position_y
        /\ Child(n, 2).position_x = n.position_x /\ Child(n, 2).position_y = n.position_y
        /\ Child(n, 3).position_x = mid_x        /\ Child(n, 3).position_y = mid_y
        /\ Child(n, 4).position_x = n.position_x /\ Child(n, 4).position_y = mid_y

\* The western children end where the eastern begin, the northern where the
\* southern begin.
C6_Seams(n) ==
    /\ NodeEdges(Child(n, 2)).east = NodeEdges(Child(n, 1)).west
    /\ NodeEdges(Child(n, 4)).east = NodeEdges(Child(n, 3)).west
    /\ NodeEdges(Child(n, 1)).south = NodeEdges(Child(n, 3)).north
    /\ NodeEdges(Child(n, 2)).south = NodeEdges(Child(n, 4)).north

C6_NorthWestRim(n) ==
    /\ \A i \in {1, 2} : NodeEdges(Child(n, i)).north = NodeEdges(n).north
    /\ \A i \in {2, 4} : NodeEdges(Child(n, i)).west = NodeEdges(n).west

C6_SouthEastRim(n) ==
    /\ \A i \in {1, 3} : NodeEdges(Child(n, i)).east = NodeEdges(n).east
    /\ \A i \in {3, 4} : NodeEdges(Child(n, i)).south = NodeEdges(n).south

IsPrefix(s, t) == Len(s) <= Len(t) /\ SubSeq(t, 1, Len(s)) = s

C7_Step ==
    qt' # qt =>
        /\ \A p \in Paths(qt) :
              /\ HasNode(qt', p)
              /\ RootView(NodeAt(qt', p)) = RootView(NodeAt(qt, p))
              /\ NodeAt(qt, p).divided => NodeAt(qt', p).divided
              /\ IsPrefix(NodeAt(qt, p).contents, NodeAt(qt', p).contents)
        /\ \A p \in Paths(qt') :
              (NodeAt(qt', p).divided /\ (~HasNode(qt, p) \/ ~NodeAt(qt, p).divided))
                  => /\ last'.op = "insert"
                     /\ Within(ObjEdges(last'.arg), NodeEdges(NodeAt(qt', p)))

C7_SubdividedOnce == [][C7_Step]_vars

\* A second object went down a chain of quadrants that the first had
\* created, and both rest below the root.
C7_Witness ==
    /\ last.op = "insert" /\ last.res = "Ok"
    /\ \E s \in Stored(qt), u \in Stored(qt) :
          /\ s # u
          /\ Len(s[1]) >= 2 /\ Len(u[1]) >= 2
          /\ s[1][1] = u[1][1]

(***************************************************************************)
(* C9.  Insert has no depth cap and no minimum cell size.  An object of    *)
(* zero width and zero height within the root's bounds is never refused,   *)
(* and it is never appended at a node whose four quadrants tile the node:  *)
(* there some quadrant contains the object and the insert descends and     *)
(* subdivides, for as long as the quadrants tile, until the stack is       *)
(* exhausted if they always do.  The object is appended only at a node     *)
(* whose quadrants, by f32 rounding, do not reach the node's east or south *)
(* edge.                                                                   *)
(***************************************************************************)
ZeroSize(o) == o.width = FZero /\ o.height = FZero

\* The node where the descent of object o ends in tree t.
Holder(t, o) == NodeAt(t, Target(t, o, <<>>))

ExtentX(o) == FSub(east_edge(o), west_edge(o))
ExtentY(o) == FSub(north_edge(o), south_edge(o))

Twice(a) == IF a.m = 0 THEN a ELSE [m |-> a.m, e |-> a.e + 1]

\* A width or height of the root, halved once per level down to the deepest
\* node whose insert fits on the stack.
Deepest(a) == IF a.m = 0 THEN a ELSE [m |-> a.m, e |-> a.e - (MaxDepth - 1)]

Touched(t, probe, p) == ~Disjoint(ObjEdges(probe), NodeEdges(NodeAt(t, p)))

\* So are the bounds of every ancestor of it.
Visited(t, probe, p) == \A a \in Upto(p) : Touched(t, probe, a)

C4_Output ==
    (last.op = "get_rect" /\ last.res = "Ok") =>
        /\ IsPrefix(last.vec_in, last.vec)
        /\ Len(Appended) = Cardinality({s \in Stored(qt) : Visited(qt, last.arg, s[1])})
        /\ \A s \in Stored(qt) :
              Count(ObjAt(qt, s), Appended) =
                  Cardinality({u \in Stored(qt) : /\ ObjAt(qt, u) = ObjAt(qt, s)
                                                  /\ Visited(qt, last.arg, u[1])})

\* The statement on a node's own bounds alone.
C4_OutputOwnBounds ==
    (last.op = "get_rect" /\ last.res = "Ok") =>
        /\ IsPrefix(last.vec_in, last.vec)
        /\ Len(Appended) = Cardinality({s \in Stored(qt) : Touched(qt, last.arg, s[1])})
        /\ \A s \in Stored(qt) :
              Count(ObjAt(qt, s), Appended) =
                  Cardinality({u \in Stored(qt) : /\ ObjAt(qt, u) = ObjAt(qt, s)
                                                  /\ Touched(qt, last.arg, u[1])})

C4_Demo ==
    (/\ qt.position_x = DemoRoot.position_x /\ ok_objs = <<DemoA, DemoB>>
     /\ last.op = "get_rect" /\ last.arg = DemoView /\ last.vec_in = <<>>) =>
        last.res = "Ok" /\ DemoA \in Range(last.vec)

C4_Unmodified == last'.op = "get_rect" => qt' = qt

=============================================================================
